---- MODULE Spec2Model ----
(***************************************************************************)
(* Job orchestration of the DiffRhythm GUI (src/app.py): the RUN_LOCK job  *)
(* gate, request validation of /api/generate and /api/generate/json,       *)
(* run_infer (scratch directory, external process, artifact relocation),   *)
(* the per-project history ledger, and the file-management handlers that   *)
(* rewrite the ledger outside the gate.                                    *)
(*                                                                         *)
(* Every Flask request is served by a thread; a thread is modelled as a    *)
(* process with a program counter pc[t].  Steps that only touch the        *)
(* request's own locals are merged into the neighbouring step that touches *)
(* shared state (lock, filesystem, external process).                      *)
(***************************************************************************)
EXTENDS Integers, Sequences, FiniteSets, TLC

(***************************************************************************)
(* Bounds of the model.                                                    *)
(***************************************************************************)
NumThreads == 2      \* concurrent request threads
MaxOps == 2          \* requests started in one behaviour
MaxClock == 2        \* wall-clock seconds that pass in one behaviour
MaxFaults == 1       \* environment failures (spawn, move, rmtree) injected
MaxIdLen == 3        \* characters of a project identifier

Threads == 1..NumThreads

(***************************************************************************)
(* Program constants.                                                      *)
(***************************************************************************)
DEFAULT_PROJECT_NAME == "Default"
HISTORY_NAME == "history.json"

\* Base directories: DEFAULT_BASE (APP_ROOT / "projects", on the file system
\* of TMP_DIR) and a configured base_dir on another file system.
DEFAULT_BASE == "projects"
MOUNTED_BASE == "mounted"
Bases == {DEFAULT_BASE, MOUNTED_BASE}

\* DEFAULT_CONFIG; cfg_strength is kept in tenths (3.8 -> 38).
DEFAULT_CONFIG ==
    [repo_id |-> "ASLP-lab/DiffRhythm-1_2", audio_length |-> 95,
     batch_infer_num |-> 1, use_chunked |-> FALSE, steps |-> 56,
     cfg_strength |-> 38, cuda_visible_devices |-> "0",
     base_dir |-> DEFAULT_BASE, active_project |-> "Default"]

\* Values a request field may carry.  ABSENT: the key is not in the request;
\* Null: Python None / JSON null.
ABSENT == "<absent>"
Null == "<None>"

\* Project directories that can exist under the base directory.
ProjNames == {"Default", "P1"}

\* timestamp_str() at clock second c, as used for the artifact name.
OutName(c) == "output-" \o ToString(c) \o ".wav"

\* Files the external tool may leave in its output directory.
ArtNames == {"output.wav", "song.wav", "notes.txt"}
WavArtNames == {"output.wav", "song.wav"}
ArtSets == {{}, {"notes.txt"}, {"song.wav", "notes.txt"},
            {"output.wav", "song.wav"}}

(***************************************************************************)
(* File contents.  A project directory is a function from the names of the *)
(* files in it to their contents.                                          *)
(***************************************************************************)
Wav == [kind |-> "wav", items |-> <<>>]
Empty == [kind |-> "empty", items |-> <<>>]
Mixed == [kind |-> "mixed", items |-> <<>>]
\* A file being copied: only a first part of its bytes is there.
Partial == [kind |-> "partial", items |-> <<>>]
Json(items) == [kind |-> "json", items |-> items]

NoDir == [n \in {} |-> Wav]

\* A base directory that does not exist yet.
\* shutil.move renames within a file system and copies across file
\* systems; TMP_DIR is on the file system of DEFAULT_BASE.
CrossDevice(b) == b # DEFAULT_BASE

NoTree == [dirs |-> {}, fs |-> [p \in ProjNames |-> NoDir],
           log |-> [p \in ProjNames |-> <<>>],
           touched |-> [p \in ProjNames |-> {}]]

VARIABLES
    lock,       \* RUN_LOCK: 0 when free, else the thread that acquired it
    pc,         \* pc[t]: position of thread t in its handler
    op,         \* op[t]: the handler thread t is running
    args,       \* args[t]: validated locals of a generate request
    run,        \* run[t]: locals of run_infer
    h,          \* h[t]: the list returned by read_history, and the list to write
    fop,        \* fop[t]: parameters of a file-management request
    resp,       \* resp[t]: the response of the request
    dirs,       \* project directories that exist under the base directory
    fs,         \* fs[p]: files of project directory p (name -> content)
    uploads,    \* files in UPLOADS_DIR
    tmp,        \* TMP_DIR: scratch directory token -> files in it
    running,    \* threads whose external process is running
    clock,      \* wall clock, in seconds
    nops,       \* requests started so far
    faults,     \* environment failures injected so far
    ghost,      \* ghost[t]: facts about the request kept for the properties
    log,        \* log[p]: ghost, the entries runs have written to p's ledger
    touched,    \* touched[p]: ghost, file names of p that a file request
                \* has deleted or renamed
    config,     \* config.json: base_dir and active_project
    offbase     \* the tree (dirs, fs, log, touched) under the base directory
                \* that is not the configured one

vars == <<lock, pc, op, args, run, h, fop, resp, dirs, fs, uploads, tmp,
          running, clock, nops, faults, ghost, log, touched, config, offbase>>

ghostvars == <<log, touched>>

fsvars == <<dirs, fs, uploads, tmp>>

cfgvars == <<config, offbase>>

\* load_config(): config.json over the defaults (the model keeps the
\* generation parameters at their defaults).
LoadConfig ==
    [DEFAULT_CONFIG EXCEPT !.base_dir = config.base_dir,
                           !.active_project = config.active_project]

\* The tree under base directory b.
TreeOf(b) ==
    IF b = config.base_dir
    THEN [dirs |-> dirs, fs |-> fs, log |-> log, touched |-> touched]
    ELSE offbase

\* The tree under base directory b becomes tr.
SetTree(b, tr) ==
    IF b = config.base_dir
    THEN /\ dirs' = tr.dirs
         /\ fs' = tr.fs
         /\ log' = tr.log
         /\ touched' = tr.touched
         /\ UNCHANGED offbase
    ELSE /\ offbase' = tr
         /\ UNCHANGED <<dirs, fs, log, touched>>

(***************************************************************************)
(* Request inputs.  A generate request carries these fields (form fields   *)
(* and uploaded files for /api/generate, JSON keys for /api/generate/json).*)
(***************************************************************************)
NumParams == {"audio_length", "steps", "cfg_strength", "batch_infer_num"}

\* Raw values of a numeric field: a numeric string, a non-numeric string,
\* JSON null (JSON endpoint only), or the field is absent.
RawNums == {ABSENT, "7", "abc", Null}

\* At most one numeric field is given in a request.
NumChoices(raws) ==
    {[k \in NumParams |-> ABSENT]} \cup
    {[k \in NumParams |-> IF k = b THEN v ELSE ABSENT] :
        b \in NumParams, v \in raws \ {ABSENT}}

\* The inputs the model enumerates for endpoint e; the form endpoint has no
\* JSON null and no URL fields.
WideInputs(e) ==
    [project : {ABSENT, "", "Default", "P1"},
     mode : {ABSENT, "simple", "advanced"},
     ref_mode : {ABSENT, "prompt", "audio", "style"},
     ref_prompt : {"", " ", "piano"},
     ref_audio_existing : {"", OutName(1)},
     ref_audio : IF e = "generate" THEN {"none", "file"}
                 ELSE {"none", "file", "url_ok", "url_fail"},
     lrc : {"none", "file"},
     use_chunked : {ABSENT, "on"},
     nums : NumChoices(IF e = "generate" THEN RawNums \ {Null} ELSE RawNums)]

\* Plain prompt requests with every parameter left to the configuration.
NarrowInputs(e) ==
    [project : {"Default", "P1"},
     mode : {"simple"},
     ref_mode : {ABSENT},
     ref_prompt : {"", "piano"},
     ref_audio_existing : {""},
     ref_audio : {"none"},
     lrc : {"none"},
     use_chunked : {ABSENT},
     nums : NumChoices({ABSENT})]

(***************************************************************************)
(* Helpers.                                                                *)
(***************************************************************************)
\* str.strip() on the prompt and name values of the inputs.
Strip(s) == IF s = " " THEN "" ELSE s

\* Variant: a conversion that falls back to the default instead of raising.
IntOfLenient(raw, default) ==
    [exc |-> "", v |-> IF raw = "7" THEN 7 ELSE default]

\* int(x): the value, or the exception raised.
IntOf(raw, default) ==
    IF raw = ABSENT THEN [exc |-> "", v |-> default]
    ELSE IF raw = "7" THEN [exc |-> "", v |-> 7]
    ELSE IF raw = Null THEN [exc |-> "TypeError", v |-> 0]
    ELSE [exc |-> "ValueError", v |-> 0]

\* float(x), in tenths.
FloatOf(raw, default) ==
    IF raw = ABSENT THEN [exc |-> "", v |-> default]
    ELSE IF raw = "7" THEN [exc |-> "", v |-> 70]
    ELSE IF raw = Null THEN [exc |-> "TypeError", v |-> 0]
    ELSE [exc |-> "ValueError", v |-> 0]

\* The exception of the first conversion that raises, "" if none does.
FirstExc(rs) ==
    IF \A i \in 1..Len(rs) : rs[i].exc = "" THEN ""
    ELSE rs[CHOOSE i \in 1..Len(rs) :
                /\ rs[i].exc # ""
                /\ \A j \in 1..(i - 1) : rs[j].exc = ""].exc

(***************************************************************************)
(* Project identifiers, character by character.  An identifier is a        *)
(* sequence of characters; a project name without special characters      *)
(* ("Default", "P1") counts as one character.                              *)
(***************************************************************************)
IdChars == {"Default", "P1", ".", "/", "\\", " "}

RECURSIVE SeqsUpTo(_, _)
SeqsUpTo(S, n) ==
    IF n = 0 THEN {<<>>}
    ELSE LET shorter == SeqsUpTo(S, n - 1)
         IN  shorter \cup {Append(q, c) : q \in shorter, c \in S}

\* Every identifier of at most MaxIdLen characters.
WideIds == SeqsUpTo(IdChars, MaxIdLen)

\* The identifiers of at most one character.
ShortIds == SeqsUpTo(IdChars, 1)

\* The plain names.
NarrowIds == {<<"Default">>, <<"P1">>}

\* str.strip(c): leading and trailing occurrences of c removed.
StripCh(q, c) ==
    LET keep == {k \in 1..Len(q) : q[k] # c}
    IN  IF keep = {} THEN <<>>
        ELSE SubSeq(q, CHOOSE k \in keep : \A j \in keep : k <= j,
                       CHOOSE k \in keep : \A j \in keep : k >= j)

\* str.replace("..", ""): occurrences found from the left, not overlapping.
RECURSIVE RemoveDotDot(_)
RemoveDotDot(q) ==
    IF Len(q) < 2 THEN q
    ELSE IF q[1] = "." /\ q[2] = "." THEN RemoveDotDot(Tail(Tail(q)))
    ELSE <<q[1]>> \o RemoveDotDot(Tail(q))

\* str.replace("\\", "/")
BackToSlash(q) == [k \in 1..Len(q) |-> IF q[k] = "\\" THEN "/" ELSE q[k]]

\* safe = (project or "Default").strip().replace("..", "")
\*            .replace("\\", "/").strip("/"); "Default" when that is empty.
Safe(id) ==
    LET given == IF id = <<>> THEN <<DEFAULT_PROJECT_NAME>> ELSE id
        q == StripCh(BackToSlash(RemoveDotDot(StripCh(given, " "))), "/")
    IN  IF q = <<>> THEN <<DEFAULT_PROJECT_NAME>> ELSE q

\* The segments of a relative path, split at "/".
RECURSIVE Split(_)
Split(q) ==
    IF \A k \in 1..Len(q) : q[k] # "/" THEN <<q>>
    ELSE LET k == CHOOSE i \in 1..Len(q) :
                     q[i] = "/" /\ \A j \in 1..(i - 1) : q[j] # "/"
         IN  <<SubSeq(q, 1, k - 1)>> \o Split(SubSeq(q, k + 1, Len(q)))

\* (base / safe).resolve(): empty and "." segments vanish, a ".." segment
\* goes one directory up.  up counts the directories above the base.
RECURSIVE Resolve(_, _)
Resolve(segs, at) ==
    IF segs = <<>> THEN at
    ELSE LET g == segs[1]
             next ==
                IF g = <<>> \/ g = <<".">> THEN at
                ELSE IF g = <<".", ".">>
                     THEN IF at.path = <<>>
                          THEN [at EXCEPT !.up = @ + 1]
                          ELSE [at EXCEPT
                                  !.path = SubSeq(@, 1, Len(@) - 1)]
                ELSE [at EXCEPT !.path = Append(@, g)]
         IN  Resolve(Tail(segs), next)

AtBase == [up |-> 0, path |-> <<>>]
Raised == [up |-> -1, path |-> <<>>]

\* project_path / project_path_no_create: the resolved directory, or the
\* ValueError when the base is neither it nor one of its parents.
ProjectPath(id) ==
    LET at == Resolve(Split(Safe(id)), AtBase)
    IN  IF at.up > 0 THEN Raised ELSE at

\* The directory a resolved path names: a project directory of the model,
\* the base directory itself, or some other directory under the base.
BaseKey == "<base>"
OtherKey == "<other>"
DirKey(at) ==
    IF at.path = <<>> THEN BaseKey
    ELSE IF Len(at.path) = 1 /\ Len(at.path[1]) = 1
            /\ at.path[1][1] \in ProjNames
         THEN at.path[1][1]
    ELSE OtherKey

\* The identifier of a project name sent as a plain string.
IdOf(project) ==
    IF project \in {"", Null} THEN <<>> ELSE <<project>>

\* project_path / project_path_no_create: the directory name under the base
\* directory that a project name resolves to.
ProjectStrings == ProjNames \cup {"", Null}

\* The resolution of every project string, computed once.
ProjectDirOf ==
    [project \in ProjectStrings |-> DirKey(ProjectPath(IdOf(project)))]

ProjectDir(project) == ProjectDirOf[project]

\* ensure_project_base followed by p.mkdir(exist_ok=True).
MkProject(d, p) == d \cup {DEFAULT_PROJECT_NAME, p}

\* Files of directory p as seen by a thread (nothing if p does not exist).
DirOf(d, f, p) == IF p \in d THEN f[p] ELSE NoDir

\* Names handed out by uuid4 for the n-th request.
UpRef(n) == "ref-" \o ToString(n)
UpLrc(n) == "lrc-" \o ToString(n)

NoArgs ==
    [project |-> "", base |-> "", pdir |-> "", mode |-> "", ref_mode |-> "",
     ref_prompt |-> "", ref_audio_existing |-> "", ref_audio_path |-> "",
     lrc_path |-> "", repo_id |-> "", audio_length |-> 0,
     batch_infer_num |-> 0, use_chunked |-> FALSE, steps |-> 0,
     cfg_strength |-> 0, cuda |-> ""]

\* What request validation leaves behind: status, project directories that
\* exist afterwards, uploads saved, validated locals.
Rejected(code, err, d, ups) ==
    [st |-> code, err |-> err, d |-> d, ups |-> ups, a |-> NoArgs]

Accepted(d, ups, a) ==
    [st |-> 200, err |-> "", d |-> d, ups |-> ups, a |-> a]

(***************************************************************************)
(* Request validation.  Both operators return what the handler has done    *)
(* when it reaches run_infer or returns early: the status, the project     *)
(* directories that now exist, the files it saved to UPLOADS_DIR, and the  *)
(* validated locals.  d, f: the directories and files found; n: the        *)
(* request number, from which the uuid4 names are made.                    *)
(***************************************************************************)

\* api_generate, from load_config() to the args_map.
ParseForm(i, d, f, n) ==
    LET cfg == LoadConfig
        project == IF i.project = ABSENT THEN cfg.active_project ELSE i.project
        mode == IF i.mode = ABSENT THEN "simple" ELSE i.mode
        pdir == ProjectDir(project)
        d1 == MkProject(d, pdir)
        ref_mode == IF i.ref_mode = ABSENT THEN "prompt" ELSE i.ref_mode
        ref_prompt == IF ref_mode = "prompt" THEN Strip(i.ref_prompt) ELSE ""
        existing == IF ref_mode = "prompt" THEN "" ELSE Strip(i.ref_audio_existing)
        cand_ok == existing # "" /\ existing \in DOMAIN DirOf(d1, f, pdir)
        up_ref == ref_mode # "prompt" /\ ~cand_ok /\ i.ref_audio = "file"
        ref_audio_path ==
            IF cand_ok THEN pdir \o "/" \o existing
            ELSE IF up_ref THEN "uploads/" \o UpRef(n) ELSE ""
        ups1 == IF up_ref THEN {UpRef(n)} ELSE {}
        up_lrc == mode = "advanced" /\ i.lrc = "file"
        ups2 == ups1 \cup (IF up_lrc THEN {UpLrc(n)} ELSE {})
        al == IntOf(i.nums["audio_length"], cfg.audio_length)
        bn == IntOf(i.nums["batch_infer_num"], cfg.batch_infer_num)
        st == IntOf(i.nums["steps"], cfg.steps)
        cs == FloatOf(i.nums["cfg_strength"], cfg.cfg_strength)
        exc == IF mode = "simple" THEN FirstExc(<<al, st, cs>>)
               ELSE FirstExc(<<al, bn, st, cs>>)
    IN  IF ref_mode = "prompt" /\ ref_prompt = ""
          THEN Rejected(400, "prompt_required", d1, {})
        ELSE IF ref_mode # "prompt" /\ ref_audio_path = ""
          THEN Rejected(400, "audio_required", d1, {})
        ELSE IF exc = "ValueError" THEN Rejected(400, "value_error", d1, ups2)
        ELSE IF exc # "" THEN Rejected(500, "fault", d1, ups2)
        ELSE Accepted(d1, ups2,
               [project |-> project, base |-> cfg.base_dir, pdir |-> pdir,
                mode |-> mode,
                ref_mode |-> ref_mode, ref_prompt |-> ref_prompt,
                ref_audio_existing |-> existing,
                ref_audio_path |-> ref_audio_path,
                lrc_path |-> IF up_lrc THEN "uploads/" \o UpLrc(n) ELSE "",
                repo_id |-> cfg.repo_id, audio_length |-> al.v,
                batch_infer_num |-> IF mode = "simple" THEN 1 ELSE bn.v,
                use_chunked |-> IF mode = "simple" THEN FALSE
                                ELSE i.use_chunked = "on",
                steps |-> st.v, cfg_strength |-> cs.v,
                cuda |-> IF mode = "simple" THEN "0"
                         ELSE cfg.cuda_visible_devices])

\* api_generate_json, from load_config() to the args_map.
ParseJson(i, d, f, n) ==
    LET cfg == LoadConfig
        project == IF i.project = ABSENT THEN cfg.active_project ELSE i.project
        mode == IF i.mode = ABSENT THEN "advanced" ELSE i.mode
        pdir == ProjectDir(project)
        d1 == MkProject(d, pdir)
        al == IntOf(i.nums["audio_length"], cfg.audio_length)
        bn == IntOf(i.nums["batch_infer_num"], cfg.batch_infer_num)
        st == IntOf(i.nums["steps"], cfg.steps)
        cs == FloatOf(i.nums["cfg_strength"], cfg.cfg_strength)
        exc == FirstExc(<<al, bn, st, cs>>)
        ref_prompt == i.ref_prompt
        ref_mode ==
            IF i.ref_mode # ABSENT THEN i.ref_mode
            ELSE IF i.ref_audio # "none" \/ i.ref_audio_existing # ""
                 THEN "audio" ELSE "prompt"
        cand_ok == /\ ref_mode = "audio"
                   /\ i.ref_audio_existing # ""
                   /\ i.ref_audio_existing \in DOMAIN DirOf(d1, f, pdir)
        fetch == ref_mode = "audio" /\ ~cand_ok /\ i.ref_audio # "none"
        ref_name == IF i.ref_audio = "file" THEN "ref.wav" ELSE "download.bin"
        ref_audio_path ==
            IF cand_ok THEN pdir \o "/" \o i.ref_audio_existing
            ELSE IF fetch /\ i.ref_audio # "url_fail" THEN "uploads/" \o ref_name
            ELSE ""
        ups1 == IF fetch /\ i.ref_audio # "url_fail" THEN {ref_name} ELSE {}
        up_lrc == i.lrc = "file"
        ups2 == ups1 \cup (IF up_lrc THEN {"lyrics.lrc"} ELSE {})
    IN  IF exc = "ValueError" THEN Rejected(400, "value_error", d1, {})
        ELSE IF exc # "" THEN Rejected(500, "fault", d1, {})
        ELSE IF fetch /\ i.ref_audio = "url_fail"
          THEN Rejected(500, "fault", d1, {})
        ELSE IF ref_mode = "audio" /\ ref_audio_path = ""
          THEN Rejected(400, "audio_required", d1, {})
        ELSE IF ref_mode # "audio" /\ Strip(ref_prompt) = ""
          THEN Rejected(400, "prompt_required", d1, ups1)
        ELSE Accepted(d1, ups2,
               [project |-> project, base |-> cfg.base_dir, pdir |-> pdir,
                mode |-> mode,
                ref_mode |-> ref_mode, ref_prompt |-> ref_prompt,
                ref_audio_existing |-> i.ref_audio_existing,
                ref_audio_path |-> ref_audio_path,
                lrc_path |-> IF up_lrc THEN "uploads/lyrics.lrc" ELSE "",
                repo_id |-> cfg.repo_id, audio_length |-> al.v,
                batch_infer_num |-> bn.v,
                use_chunked |-> IF i.use_chunked = ABSENT THEN cfg.use_chunked
                                ELSE TRUE,
                steps |-> st.v, cfg_strength |-> cs.v,
                cuda |-> cfg.cuda_visible_devices])

ParseRequest(e, i, d, f, n) ==
    IF e = "generate" THEN ParseForm(i, d, f, n) ELSE ParseJson(i, d, f, n)

(***************************************************************************)
(* Locals, responses and the ledger.                                       *)
(***************************************************************************)
\* token: the uuid4 drawn for the request; rc: proc.returncode;
\* moved: the local ok of run_infer; final_name: the destination name;
\* dbase, dkey: the base and project directory run_infer resolved;
\* src: the scratch file it chose to move.
NoRun == [token |-> 0, rc |-> -1, moved |-> FALSE, final_name |-> "",
          cmd |-> <<>>, logs |-> <<>>, move_failed |-> FALSE,
          dbase |-> "", dkey |-> "", src |-> ""]

\* tmp_outdir = TMP_DIR / run_token
Scratch(token) == "tmp/run-" \o ToString(token)

\* str(float(x)) of a value kept in tenths.
FloatStr(v) == ToString(v \div 10) \o "." \o ToString(v % 10)

\* prelog: the command line, the device selector, the parameter summary.
PreLog(a, cmd) ==
    << <<"DR-GUI CMD", cmd>>,
       <<"DR-GUI ENV", a.cuda>>,
       <<"DR-GUI PARAMS", a.project, a.mode, a.repo_id,
         ToString(a.audio_length), ToString(a.batch_infer_num),
         ToString(a.steps), FloatStr(a.cfg_strength), a.use_chunked,
         IF a.ref_audio_path # "" THEN "audio" ELSE "prompt">> >>

\* logs = prelog_txt + (proc.stdout or "")
LogsOf(a, cmd) == PreLog(a, cmd) \o << <<"stdout">> >>

\* Variant: the lyrics option is put before the reference option.
BuildInferCmdLrcFirst(a, scratch) ==
    <<"--output-dir", scratch, "--audio-length", ToString(a.audio_length),
      "--repo-id", a.repo_id>>
    \o (IF a.lrc_path # "" THEN <<"--lrc-path", a.lrc_path>> ELSE <<>>)
    \o (IF a.ref_audio_path # "" THEN <<"--ref-audio-path", a.ref_audio_path>>
        ELSE <<"--ref-prompt", a.ref_prompt>>)
    \o (IF a.use_chunked THEN <<"--chunked">> ELSE <<>>)
    \o <<"--batch-infer-num", ToString(a.batch_infer_num),
         "--steps", ToString(a.steps),
         "--cfg-strength", FloatStr(a.cfg_strength)>>

\* build_infer_cmd: the arguments after the executable and the script.
BuildInferCmd(a, scratch) ==
    <<"--output-dir", scratch, "--audio-length", ToString(a.audio_length),
      "--repo-id", a.repo_id>>
    \o (IF a.ref_audio_path # "" THEN <<"--ref-audio-path", a.ref_audio_path>>
        ELSE IF a.ref_prompt # "" THEN <<"--ref-prompt", a.ref_prompt>>
        ELSE <<>>)
    \o (IF a.lrc_path # "" THEN <<"--lrc-path", a.lrc_path>> ELSE <<>>)
    \o (IF a.use_chunked THEN <<"--chunked">> ELSE <<>>)
    \o <<"--batch-infer-num", ToString(a.batch_infer_num)>>
    \o <<"--steps", ToString(a.steps)>>
    \o <<"--cfg-strength", FloatStr(a.cfg_strength)>>

\* before: ghost, the ledger as it was when the request arrived.
NoFop == [project |-> "", src |-> "", dst |-> "", before |-> <<>>,
          id |-> <<>>]

NoResp == [status |-> 0, ok |-> FALSE, error |-> "", returncode |-> -1,
           outfile_name |-> "", logs |-> <<>>, files |-> {}]

\* jsonify({"ok": False, "error": ...}), code
ErrorResp(code, err) ==
    [status |-> code, ok |-> FALSE, error |-> err, returncode |-> -1,
     outfile_name |-> "", logs |-> <<>>, files |-> {}]

OkResp == [status |-> 200, ok |-> TRUE, error |-> "", returncode |-> -1,
           outfile_name |-> "", logs |-> <<>>, files |-> {}]

\* unset: the request set neither a prompt nor a reference audio; mode: the
\* mode of an accepted request;
\* bad: numeric fields sent with a non-numeric value; spawns: external
\* processes started for the request; appends: write_history calls the
\* request's run completed; releases: RUN_LOCK.release() calls of the
\* request.
NoGhost == [unset |-> FALSE, bad |-> {}, mode |-> "", spawns |-> 0,
            appends |-> 0, releases |-> 0]

Unset(i) ==
    /\ Strip(i.ref_prompt) = ""
    /\ i.ref_audio_existing = ""
    /\ i.ref_audio = "none"

BadNums(i) == {k \in NumParams : i.nums[k] \in {"abc", Null}}

\* Variant: a result that ignores the exit status.
RunResultOkMoved(r) == r.moved

\* The return value of run_infer: ok and proc.returncode == 0.
RunResultOk(r) == r.moved /\ r.rc = 0

\* Variant: the ledger is written after every run.
AfterRunAlways(r) == "hread"

\* if result.get("ok"): the ledger is written only after a successful run.
AfterRun(r) == IF RunResultOk(r) THEN "hread" ELSE "release"

\* Variant: the destination name is reported whether or not a file was
\* moved.
ResultRespNamed(r) ==
    [status |-> 200, ok |-> RunResultOk(r), error |-> "",
     returncode |-> r.rc, logs |-> r.logs, files |-> {},
     outfile_name |-> r.final_name]

\* jsonify(result)
ResultResp(r) ==
    [status |-> 200, ok |-> RunResultOk(r), error |-> "",
     returncode |-> r.rc, logs |-> r.logs, files |-> {},
     outfile_name |-> IF r.moved THEN r.final_name ELSE ""]

\* read_history: the parsed list, [] when the file is missing or unparsable.
ReadHistory(dir) ==
    IF HISTORY_NAME \in DOMAIN dir /\ dir[HISTORY_NAME].kind = "json"
    THEN dir[HISTORY_NAME].items
    ELSE <<>>

\* The history entry api_generate / api_generate_json build after a run.
HistoryEntry(e, a, r, now) ==
    [ts |-> now, file |-> r.final_name, mode |-> a.mode,
     ref_mode |-> a.ref_mode,
     prompt |-> IF a.ref_mode = "prompt" THEN a.ref_prompt ELSE Null,
     ref_audio |-> IF a.ref_audio_existing # "" THEN a.ref_audio_existing
                   ELSE IF a.ref_audio_path # "" THEN a.ref_audio_path
                   ELSE Null,
     audio_length |-> a.audio_length, repo_id |-> a.repo_id,
     steps |-> a.steps, cfg_strength |-> a.cfg_strength,
     chunked |-> a.use_chunked, batch_infer_num |-> a.batch_infer_num]

\* Variant: the new entry is put first.
PrependEntry(items, entry) == <<entry>> \o items

\* h.append(history_entry)
AppendEntry(items, entry) == Append(items, entry)

\* write_text opens the file for writing, which creates or truncates it...
Truncate(dir) ==
    [n \in DOMAIN dir \cup {HISTORY_NAME} |->
        IF n = HISTORY_NAME THEN Empty ELSE dir[n]]

\* ...and then writes the serialized list at offset 0.  A file that another
\* writer filled in between keeps its tail when it is longer (sizes compared
\* by number of entries); a file unlinked in between is not brought back.
WriteOver(dir, items) ==
    IF HISTORY_NAME \notin DOMAIN dir THEN dir
    ELSE LET cur == dir[HISTORY_NAME]
             new == IF cur.kind = "empty" THEN Json(items)
                    ELSE IF cur.kind = "json" /\ Len(cur.items) <= Len(items)
                         THEN Json(items)
                    ELSE Mixed
         IN  [dir EXCEPT ![HISTORY_NAME] = new]

\* The source file run_infer moves: output.wav, else any *.wav of the scratch
\* directory ("" when there is none).
SrcCandidates(files) ==
    IF "output.wav" \in files THEN {"output.wav"}
    ELSE IF files \cap WavArtNames # {} THEN files \cap WavArtNames
    ELSE {""}

\* shutil.move(src, final_path): the destination is created or replaced.
PutFile(dir, name, content) ==
    [n \in DOMAIN dir \cup {name} |-> IF n = name THEN content ELSE dir[n]]

RemoveFile(dir, name) == [n \in DOMAIN dir \ {name} |-> dir[n]]

\* shutil.rmtree(tmp_outdir)
RemoveScratch(t, token) == [k \in DOMAIN t \ {token} |-> t[k]]

(***************************************************************************)
(* Initial state: a fresh installation, the Default project exists.        *)
(***************************************************************************)
Init ==
    /\ config = [base_dir |-> DEFAULT_BASE, active_project |-> "Default"]
    /\ offbase = NoTree
    /\ lock = 0
    /\ pc = [t \in Threads |-> "idle"]
    /\ op = [t \in Threads |-> "none"]
    /\ args = [t \in Threads |-> NoArgs]
    /\ run = [t \in Threads |-> NoRun]
    /\ h = [t \in Threads |-> <<>>]
    /\ fop = [t \in Threads |-> NoFop]
    /\ resp = [t \in Threads |-> NoResp]
    /\ dirs = {DEFAULT_PROJECT_NAME}
    /\ fs = [p \in ProjNames |-> NoDir]
    /\ uploads = {}
    /\ tmp = [k \in {} |-> {}]
    /\ running = {}
    /\ clock = 1
    /\ nops = 0
    /\ faults = 0
    /\ ghost = [t \in Threads |-> NoGhost]
    /\ log = [p \in ProjNames |-> <<>>]
    /\ touched = [p \in ProjNames |-> {}]

(***************************************************************************)
(* The job gate.                                                           *)
(***************************************************************************)
\* Variant: an acquire that always succeeds.
TryAcquireAlways(l) == TRUE

\* Variant: a busy request that has already made its scratch directory.
BusyRejectScratch(t) ==
    /\ pc' = [pc EXCEPT ![t] = "done"]
    /\ resp' = [resp EXCEPT ![t] = ErrorResp(429, "busy")]
    /\ tmp' = ((nops + 1) :> {}) @@ tmp
    /\ UNCHANGED <<cfgvars, lock, args, run, h, fop, dirs, fs, uploads, running, ghost,
                   ghostvars>>

\* Variant: the rejected request releases the gate on its way out.
BusyRejectReleasing(t) ==
    /\ pc' = [pc EXCEPT ![t] = "done"]
    /\ resp' = [resp EXCEPT ![t] = ErrorResp(429, "busy")]
    /\ lock' = 0
    /\ UNCHANGED <<cfgvars, args, run, h, fop, fsvars, running, ghost,
                   ghostvars>>

\* Variant: contention answered like a validation error.
BusyRejectAsInvalid(t) ==
    /\ pc' = [pc EXCEPT ![t] = "done"]
    /\ resp' = [resp EXCEPT ![t] = ErrorResp(400, "busy")]
    /\ UNCHANGED <<cfgvars, lock, args, run, h, fop, fsvars, running, ghost,
                   ghostvars>>

\* Variant: a release on the normal return only, without the finally clause.
ReleaseLockOnSuccess(t, l) == IF resp[t].status = 200 THEN 0 ELSE l

\* RUN_LOCK.acquire(blocking=False)
TryAcquire(l) == l = 0

\* return jsonify({"ok": False, "error": "Another job is running"}), 429
BusyReject(t) ==
    /\ pc' = [pc EXCEPT ![t] = "done"]
    /\ resp' = [resp EXCEPT ![t] = ErrorResp(429, "busy")]
    /\ UNCHANGED <<cfgvars, lock, args, run, h, fop, fsvars, running, ghost,
                   ghostvars>>

\* Variant: the gate is never released.
ReleaseLockKept(t, l) == l

\* finally: RUN_LOCK.release()
ReleaseLock(t, l) == 0

\* The handler leaves the try block with its response set: the finally
\* clause releases the lock and the response is returned.
GenRelease(t) ==
    /\ pc[t] = "release"
    /\ lock' = ReleaseLock(t, lock)
    /\ pc' = [pc EXCEPT ![t] = "done"]
    /\ args' = [args EXCEPT ![t] = NoArgs]
    /\ h' = [h EXCEPT ![t] = <<>>]
    /\ ghost' = [ghost EXCEPT ![t].releases = @ + 1]
    /\ UNCHANGED <<cfgvars, op, run, fop, resp, fsvars, running, clock, nops,
                   faults,
                   ghostvars>>

(***************************************************************************)
(* api_generate / api_generate_json.                                       *)
(***************************************************************************)
\* load_config() ... args_map: validation, with its directory and uploads.
GenParse(t, e, i) ==
    LET r == ParseRequest(e, i, dirs, fs, nops + 1)
    IN  /\ lock' = t
        /\ dirs' = r.d
        /\ uploads' = uploads \cup r.ups
        /\ ghost' = [ghost EXCEPT ![t] =
                        [NoGhost EXCEPT !.unset = Unset(i),
                                        !.bad = BadNums(i),
                                        !.mode = IF r.st = 200 THEN r.a.mode
                                                 ELSE ""]]
        /\ run' = [run EXCEPT ![t] = [NoRun EXCEPT !.token = nops + 1]]
        /\ IF r.st = 200
           THEN /\ args' = [args EXCEPT ![t] = r.a]
                /\ pc' = [pc EXCEPT ![t] = "spawn"]
                /\ UNCHANGED resp
           ELSE /\ resp' = [resp EXCEPT ![t] = ErrorResp(r.st, r.err)]
                /\ pc' = [pc EXCEPT ![t] = "release"]
                /\ UNCHANGED args
        /\ UNCHANGED <<cfgvars, h, fop, fs, tmp, running, ghostvars>>

\* A request for endpoint e arrives at thread t: the gate, then validation.
\* (Nothing but the lock is touched between the two, so they are one step.)
GenStart(t, e, inputs) ==
    /\ pc[t] = "idle"
    /\ nops < MaxOps
    /\ nops' = nops + 1
    /\ op' = [op EXCEPT ![t] = e]
    /\ UNCHANGED <<clock, faults>>
    /\ IF TryAcquire(lock)
       THEN \E i \in inputs : GenParse(t, e, i)
       ELSE BusyReject(t)

\* run_infer: tmp_outdir.mkdir, build_infer_cmd, subprocess.run starts the
\* external tool, or raises when the executable cannot be started.
GenSpawn(t) ==
    /\ pc[t] = "spawn"
    /\ tmp' = (run[t].token :> {}) @@ tmp
    /\ run' = [run EXCEPT ![t].cmd =
                  BuildInferCmd(args[t], Scratch(run[t].token))]
    /\ \E started \in {TRUE} \cup {FALSE : x \in 1..(MaxFaults - faults)} :
          IF started
          THEN /\ running' = running \cup {t}
               /\ ghost' = [ghost EXCEPT ![t].spawns = @ + 1]
               /\ pc' = [pc EXCEPT ![t] = "running"]
               /\ UNCHANGED <<resp, faults>>
          ELSE /\ resp' = [resp EXCEPT ![t] = ErrorResp(500, "fault")]
               /\ pc' = [pc EXCEPT ![t] = "release"]
               /\ faults' = faults + 1
               /\ UNCHANGED <<running, ghost>>
    /\ UNCHANGED <<cfgvars, lock, op, args, h, fop, dirs, fs, uploads, clock, nops,
                   ghostvars>>

\* The external tool exits with status rc, leaving arts in its output
\* directory; subprocess.run returns.
GenProcExit(t) ==
    /\ pc[t] = "running"
    /\ \E rc \in {0, 1}, arts \in ArtSets :
          /\ run' = [run EXCEPT ![t].rc = rc,
                                ![t].logs = LogsOf(args[t], run[t].cmd)]
          /\ tmp' = [tmp EXCEPT ![run[t].token] = arts]
    /\ running' = running \ {t}
    /\ pc' = [pc EXCEPT ![t] = "relocate"]
    /\ UNCHANGED <<cfgvars, lock, op, args, h, fop, resp, dirs, fs, uploads, clock,
                   nops, faults, ghost,
                   ghostvars>>

\* run_infer after the process: project_path, pick and move the artifact,
\* remove the scratch directory (errors ignored), build the result.
GenRelocate(t) ==
    /\ pc[t] = "relocate"
    /\ LET token == run[t].token
           pdir == ProjectDir(args[t].project)
           d1 == MkProject(dirs, pdir)
           final_name == OutName(clock)
       IN  /\ dirs' = d1
           /\ \E src \in SrcCandidates(tmp[token]), moveok, rmok \in BOOLEAN :
                 /\ faults' = faults + (IF src # "" /\ ~moveok THEN 1
                                        ELSE IF ~rmok THEN 1 ELSE 0)
                 /\ faults' <= MaxFaults
                 /\ src = "" => moveok
                 /\ ~moveok => rmok
                 /\ (src # "" /\ CrossDevice(config.base_dir)) => rmok
                 /\ IF ~moveok
                    THEN \* shutil.move raises
                         /\ resp' = [resp EXCEPT ![t] = ErrorResp(500, "fault")]
                         /\ pc' = [pc EXCEPT ![t] = "release"]
                         /\ run' = [run EXCEPT ![t].move_failed = TRUE]
                         /\ UNCHANGED <<fs, tmp>>
                    ELSE LET r == [run[t] EXCEPT !.moved = (src # ""),
                                                 !.final_name = final_name,
                                                 !.dbase = config.base_dir,
                                                 !.dkey = pdir,
                                                 !.src = src]
                         IN  IF src # "" /\ CrossDevice(config.base_dir)
                             THEN \* os.rename fails: copy2 starts
                                  /\ run' = [run EXCEPT ![t] = r]
                                  /\ fs' = [fs EXCEPT ![pdir] =
                                              PutFile(DirOf(d1, fs, pdir),
                                                      final_name, Partial)]
                                  /\ pc' = [pc EXCEPT ![t] = "copy"]
                                  /\ UNCHANGED <<tmp, resp>>
                             ELSE
                             /\ run' = [run EXCEPT ![t] = r]
                             /\ fs' = IF src # ""
                                      THEN [fs EXCEPT ![pdir] =
                                              PutFile(DirOf(d1, fs, pdir),
                                                      final_name, Wav)]
                                      ELSE fs
                             /\ tmp' = IF rmok THEN RemoveScratch(tmp, token)
                                       ELSE [tmp EXCEPT ![token] = @ \ {src}]
                             /\ pc' = [pc EXCEPT ![t] = AfterRun(r)]
                             /\ resp' = IF AfterRun(r) = "release"
                                        THEN [resp EXCEPT ![t] = ResultResp(r)]
                                        ELSE resp
    /\ UNCHANGED <<cfgvars, lock, op, args, h, fop, uploads, running, clock, nops,
                   ghost,
                   ghostvars>>

\* shutil.move across file systems, second half: copy2 completes the
\* destination (when its directory still exists), the source is unlinked,
\* then the scratch directory is removed and the result built.
GenCopyDone(t) ==
    /\ pc[t] = "copy"
    /\ LET r == run[t]
           tr == TreeOf(r.dbase)
       IN  /\ IF r.dkey \in tr.dirs /\ r.final_name \in DOMAIN tr.fs[r.dkey]
              THEN SetTree(r.dbase,
                           [tr EXCEPT !.fs[r.dkey][r.final_name] = Wav])
              ELSE UNCHANGED <<dirs, fs, ghostvars, offbase>>
           /\ tmp' = RemoveScratch(tmp, r.token)
           /\ pc' = [pc EXCEPT ![t] = AfterRun(r)]
           /\ resp' = IF AfterRun(r) = "release"
                      THEN [resp EXCEPT ![t] = ResultResp(r)]
                      ELSE resp
    /\ UNCHANGED <<config, lock, op, args, run, h, fop, uploads, running,
                   clock, nops, faults, ghost>>

\* h = read_history(project_dir); h.append(history_entry)
GenReadHistory(t) ==
    /\ pc[t] = "hread"
    /\ h' = [h EXCEPT ![t] =
               AppendEntry(ReadHistory(DirOf(TreeOf(args[t].base).dirs,
                                             TreeOf(args[t].base).fs,
                                             args[t].pdir)),
                           HistoryEntry(op[t], args[t], run[t], clock))]
    /\ pc' = [pc EXCEPT ![t] = "hopen"]
    /\ UNCHANGED <<cfgvars, lock, op, args, run, fop, resp, fsvars, running, clock,
                   nops, faults, ghost,
                   ghostvars>>

\* write_history: open(history.json, "w"); raises when the directory is gone.
GenOpenHistory(t) ==
    /\ pc[t] = "hopen"
    /\ LET tr == TreeOf(args[t].base)
       IN  IF args[t].pdir \in tr.dirs
           THEN /\ SetTree(args[t].base,
                           [tr EXCEPT !.fs[args[t].pdir] = Truncate(@)])
                /\ pc' = [pc EXCEPT ![t] = "hwrite"]
                /\ UNCHANGED resp
           ELSE /\ resp' = [resp EXCEPT ![t] = ErrorResp(500, "fault")]
                /\ pc' = [pc EXCEPT ![t] = "release"]
                /\ UNCHANGED <<dirs, fs, ghostvars, offbase>>
    /\ UNCHANGED <<config, lock, op, args, run, h, fop, uploads, tmp, running,
                   clock, nops, faults, ghost>>

\* write_history: the list is written and the file closed; return jsonify(result)
GenWriteHistory(t) ==
    /\ pc[t] = "hwrite"
    /\ LET tr == TreeOf(args[t].base)
           pdir == args[t].pdir
       IN  SetTree(args[t].base,
                   [tr EXCEPT !.fs[pdir] = WriteOver(@, h[t]),
                              !.log[pdir] =
                                  IF HISTORY_NAME \in DOMAIN tr.fs[pdir]
                                  THEN Append(@, h[t][Len(h[t])])
                                  ELSE @])
    /\ ghost' = [ghost EXCEPT ![t].appends = @ + 1]
    /\ resp' = [resp EXCEPT ![t] = ResultResp(run[t])]
    /\ pc' = [pc EXCEPT ![t] = "release"]
    /\ UNCHANGED <<config, lock, op, args, run, h, fop, uploads, tmp, running,
                   clock, nops, faults>>

(***************************************************************************)
(* File management, outside the gate.                                      *)
(***************************************************************************)
\* Names a file request may carry, and targets of a rename.
FileArgs == {OutName(c) : c \in 1..MaxClock} \cup {HISTORY_NAME}
RenameDsts == {"renamed.wav", HISTORY_NAME}

\* h = [e for e in h if e.get("file") != target.name]
FilterOut(items, name) == SelectSeq(items, LAMBDA e : e.file # name)

\* for e in h: if e.get("file") == src.name: e["file"] = dst.name
PatchFile(items, src, dst) ==
    [k \in 1..Len(items) |->
        IF items[k].file = src THEN [items[k] EXCEPT !.file = dst]
        ELSE items[k]]

\* api_files_delete up to target.unlink(): project_path creates the
\* directory, unlink raises when the file is missing.
FilesDelete(t, project, name) ==
    /\ pc[t] = "idle"
    /\ nops < MaxOps
    /\ nops' = nops + 1
    /\ op' = [op EXCEPT ![t] = "files_delete"]
    /\ LET pdir == ProjectDir(project)
           d1 == MkProject(dirs, pdir)
           dir == DirOf(d1, fs, pdir)
       IN  /\ dirs' = d1
           /\ fop' = [fop EXCEPT ![t] =
                        [NoFop EXCEPT !.project = pdir, !.src = name,
                                      !.before = ReadHistory(dir)]]
           /\ IF name \in DOMAIN dir
              THEN /\ fs' = [fs EXCEPT ![pdir] = RemoveFile(dir, name)]
                   /\ touched' = [touched EXCEPT ![pdir] = @ \cup {name}]
                   /\ pc' = [pc EXCEPT ![t] = "fread"]
                   /\ UNCHANGED resp
              ELSE /\ resp' = [resp EXCEPT ![t] = ErrorResp(400, "os_error")]
                   /\ pc' = [pc EXCEPT ![t] = "done"]
                   /\ UNCHANGED <<fs, touched>>
    /\ UNCHANGED <<cfgvars, lock, args, run, h, uploads, tmp, running, clock, faults,
                   ghost, log>>

\* api_files_rename up to src.rename(dst): raises when src is missing,
\* replaces dst when it exists.
FilesRename(t, project, src, dst) ==
    /\ pc[t] = "idle"
    /\ nops < MaxOps
    /\ nops' = nops + 1
    /\ op' = [op EXCEPT ![t] = "files_rename"]
    /\ LET pdir == ProjectDir(project)
           d1 == MkProject(dirs, pdir)
           dir == DirOf(d1, fs, pdir)
       IN  /\ dirs' = d1
           /\ fop' = [fop EXCEPT ![t] =
                        [NoFop EXCEPT !.project = pdir, !.src = src,
                                      !.dst = dst,
                                      !.before = ReadHistory(dir)]]
           /\ IF src \in DOMAIN dir
              THEN /\ fs' = [fs EXCEPT ![pdir] =
                               IF src = dst THEN dir
                               ELSE PutFile(RemoveFile(dir, src), dst, dir[src])]
                   /\ touched' = [touched EXCEPT ![pdir] = @ \cup {src}]
                   /\ pc' = [pc EXCEPT ![t] = "fread"]
                   /\ UNCHANGED resp
              ELSE /\ resp' = [resp EXCEPT ![t] = ErrorResp(400, "os_error")]
                   /\ pc' = [pc EXCEPT ![t] = "done"]
                   /\ UNCHANGED <<fs, touched>>
    /\ UNCHANGED <<cfgvars, lock, args, run, h, uploads, tmp, running, clock, faults,
                   ghost, log>>

\* h = read_history(p), filtered (delete) or patched (rename)
FilesReadHistory(t) ==
    /\ pc[t] = "fread"
    /\ LET items == ReadHistory(DirOf(dirs, fs, fop[t].project))
       IN  h' = [h EXCEPT ![t] =
                    IF op[t] = "files_delete"
                    THEN FilterOut(items, fop[t].src)
                    ELSE PatchFile(items, fop[t].src, fop[t].dst)]
    /\ pc' = [pc EXCEPT ![t] = "fopen"]
    /\ UNCHANGED <<cfgvars, lock, op, args, run, fop, resp, fsvars, running, clock,
                   nops, faults, ghost,
                   ghostvars>>

\* write_history: open(history.json, "w"); an OSError is answered with 400.
FilesOpenHistory(t) ==
    /\ pc[t] = "fopen"
    /\ IF fop[t].project \in dirs
       THEN /\ fs' = [fs EXCEPT ![fop[t].project] = Truncate(@)]
            /\ pc' = [pc EXCEPT ![t] = "fwrite"]
            /\ UNCHANGED <<resp, h>>
       ELSE /\ resp' = [resp EXCEPT ![t] = ErrorResp(400, "os_error")]
            /\ pc' = [pc EXCEPT ![t] = "done"]
            /\ h' = [h EXCEPT ![t] = <<>>]
            /\ UNCHANGED fs
    /\ UNCHANGED <<cfgvars, lock, op, args, run, fop, dirs, uploads, tmp, running,
                   clock, nops, faults, ghost,
                   ghostvars>>

\* write_history: the list is written; return jsonify({"ok": True})
FilesWriteHistory(t) ==
    /\ pc[t] = "fwrite"
    /\ fs' = [fs EXCEPT ![fop[t].project] = WriteOver(@, h[t])]
    /\ h' = [h EXCEPT ![t] = <<>>]
    /\ resp' = [resp EXCEPT ![t] = OkResp]
    /\ pc' = [pc EXCEPT ![t] = "done"]
    /\ UNCHANGED <<cfgvars, lock, op, args, run, fop, dirs, uploads, tmp, running,
                   clock, nops, faults, ghost,
                   ghostvars>>

(***************************************************************************)
(* Project management.                                                     *)
(***************************************************************************)
\* is_reserved_project: name.strip().lower() == "default" (the identifiers
\* of the model are written in one case).
IsReservedProject(id) == StripCh(id, " ") = <<DEFAULT_PROJECT_NAME>>

\* x.suffix.lower() == ".wav" for the names a project directory can hold
IsWavName(n) == n # HISTORY_NAME

\* shutil.rmtree(p) on the directories: the base goes with every project.
RemoveTree(d, key) ==
    IF key = BaseKey THEN {} ELSE d \ {key}

\* ...on the files, and on the ghosts that follow a directory.
ClearTree(f, key, empty) ==
    [q \in ProjNames |-> IF key \in {BaseKey, q} THEN empty ELSE f[q]]

\* api_projects_delete: the directory the name resolves to is removed with
\* all its files, unless the name is reserved or (without force) the
\* directory holds a .wav file.
ProjectsDelete(t, name, force) ==
    /\ pc[t] = "idle"
    /\ nops < MaxOps
    /\ nops' = nops + 1
    /\ op' = [op EXCEPT ![t] = "projects_delete"]
    /\ pc' = [pc EXCEPT ![t] = "done"]
    /\ LET key == DirKey(ProjectPath(name))
           d0 == dirs \cup {DEFAULT_PROJECT_NAME}
           d1 == IF key \in ProjNames THEN MkProject(dirs, key) ELSE d0
           dir == IF key \in ProjNames THEN DirOf(d1, fs, key) ELSE NoDir
       IN  /\ fop' = [fop EXCEPT ![t] =
                        [NoFop EXCEPT !.project = key, !.id = name]]
           /\ IF IsReservedProject(name)
              THEN /\ resp' = [resp EXCEPT ![t] = ErrorResp(400, "reserved")]
                   /\ dirs' = d0
                   /\ UNCHANGED <<fs, ghostvars>>
              ELSE IF ~force /\ \E n \in DOMAIN dir : IsWavName(n)
              THEN /\ resp' = [resp EXCEPT ![t] = ErrorResp(400, "not_empty")]
                   /\ dirs' = d1
                   /\ UNCHANGED <<fs, ghostvars>>
              ELSE /\ resp' = [resp EXCEPT ![t] = OkResp]
                   /\ dirs' = RemoveTree(d1, key)
                   /\ fs' = ClearTree(fs, key, NoDir)
                   /\ log' = ClearTree(log, key, <<>>)
                   /\ touched' = ClearTree(touched, key, {})
    /\ UNCHANGED <<cfgvars, lock, args, run, h, uploads, tmp, running, clock, faults,
                   ghost>>

\* src.rename(dst) on a per-project map: what src held is now under dst
\* (when dst is a project directory of the model), and src holds nothing.
MoveTree(f, src, dst, empty) ==
    [q \in ProjNames |->
        IF q = dst THEN f[src] ELSE IF q = src THEN empty ELSE f[q]]

\* api_projects_rename: refused for a reserved old or new name, a missing
\* source or an existing target; otherwise the directory is renamed.
ProjectsRename(t, old, new) ==
    /\ pc[t] = "idle"
    /\ nops < MaxOps
    /\ nops' = nops + 1
    /\ op' = [op EXCEPT ![t] = "projects_rename"]
    /\ pc' = [pc EXCEPT ![t] = "done"]
    /\ LET src == DirKey(ProjectPath(old))
           dst == DirKey(ProjectPath(new))
           d0 == dirs \cup {DEFAULT_PROJECT_NAME}
           exists(k) == k = BaseKey \/ k \in d0
           same == ProjectPath(old) = ProjectPath(new)
       IN  /\ fop' = [fop EXCEPT ![t] =
                        [NoFop EXCEPT !.project = src, !.id = old,
                                      !.dst = dst]]
           /\ IF IsReservedProject(old) \/ IsReservedProject(new)
              THEN /\ resp' = [resp EXCEPT ![t] = ErrorResp(400, "reserved")]
                   /\ dirs' = d0
                   /\ UNCHANGED <<fs, ghostvars>>
              ELSE IF ~exists(src) \/ exists(dst) \/ same
                      \/ src = BaseKey
              THEN \* missing source, existing target, or an OSError
                   /\ resp' = [resp EXCEPT ![t] = ErrorResp(400, "refused")]
                   /\ dirs' = d0
                   /\ UNCHANGED <<fs, ghostvars>>
              ELSE /\ resp' = [resp EXCEPT ![t] = OkResp]
                   /\ dirs' = (d0 \ {src}) \cup ({dst} \cap ProjNames)
                   /\ fs' = MoveTree(fs, src, dst, NoDir)
                   /\ log' = MoveTree(log, src, dst, <<>>)
                   /\ touched' = MoveTree(touched, src, dst, {})
    /\ UNCHANGED <<cfgvars, lock, args, run, h, uploads, tmp, running, clock, faults,
                   ghost>>

\* The response has been sent; the thread serves the next request.
\* list_audio_files(p): the name and the state of every *.wav of the
\* directory.
ListAudioFiles(dir) == {<<n, dir[n].kind>> : n \in {m \in DOMAIN dir : IsWavName(m)}}

\* api_files_list: GET /api/files/list?project=...
FilesList(t, project) ==
    /\ pc[t] = "idle"
    /\ op' = [op EXCEPT ![t] = "files_list"]
    /\ pc' = [pc EXCEPT ![t] = "done"]
    /\ dirs' = dirs \cup {DEFAULT_PROJECT_NAME}
    /\ LET pdir == ProjectDir(project)
       IN  resp' = [resp EXCEPT ![t] =
                      [OkResp EXCEPT !.files =
                          IF pdir \in dirs' THEN ListAudioFiles(fs[pdir])
                          ELSE {}]]
    /\ UNCHANGED <<cfgvars, lock, args, run, h, fop, fs, uploads, tmp, running,
                   clock, nops, faults, ghost, ghostvars>>

\* api_config, POST: cfg.update(...), ensure_project_base(cfg),
\* save_config(cfg).  b, ap: the base_dir and active_project of the body
\* (ABSENT: the key is not sent).  File-management requests in flight keep
\* the directory they resolved, so the model changes the configuration
\* between them.
ConfigPost(b, ap) ==
    /\ nops < MaxOps
    /\ nops' = nops + 1
    /\ \A t \in Threads : pc[t] \notin {"fread", "fopen", "fwrite"}
    /\ LET nb == IF b = ABSENT THEN config.base_dir ELSE b
           nap == IF ap = ABSENT THEN config.active_project ELSE ap
       IN  /\ config' = [base_dir |-> nb, active_project |-> nap]
           /\ IF nb = config.base_dir
              THEN /\ dirs' = dirs \cup {DEFAULT_PROJECT_NAME}
                   /\ UNCHANGED <<fs, ghostvars, offbase>>
              ELSE /\ dirs' = offbase.dirs \cup {DEFAULT_PROJECT_NAME}
                   /\ fs' = offbase.fs
                   /\ log' = offbase.log
                   /\ touched' = offbase.touched
                   /\ offbase' = [dirs |-> dirs, fs |-> fs, log |-> log,
                                  touched |-> touched]
    /\ UNCHANGED <<lock, pc, op, args, run, h, fop, resp, uploads, tmp,
                   running, clock, faults, ghost>>

Finish(t) ==
    /\ pc[t] = "done"
    /\ pc' = [pc EXCEPT ![t] = "idle"]
    /\ op' = [op EXCEPT ![t] = "none"]
    /\ fop' = [fop EXCEPT ![t] = NoFop]
    /\ run' = [run EXCEPT ![t] = NoRun]
    /\ resp' = [resp EXCEPT ![t] = NoResp]
    /\ ghost' = [ghost EXCEPT ![t] = NoGhost]
    /\ UNCHANGED <<cfgvars, lock, args, h, fsvars, running, clock, nops, faults,
                   ghostvars>>

\* A second passes.
Tick ==
    /\ clock < MaxClock
    /\ clock' = clock + 1
    /\ UNCHANGED <<cfgvars, lock, pc, op, args, run, h, fop, resp, fsvars, running,
                   nops, faults, ghost,
                   ghostvars>>

Endpoints == {"generate", "generate_json"}

GenSteps(t) ==
    \/ GenSpawn(t)
    \/ GenProcExit(t)
    \/ GenRelocate(t)
    \/ GenReadHistory(t)
    \/ GenOpenHistory(t)
    \/ GenWriteHistory(t)
    \/ GenRelease(t)
    \/ Finish(t)

FileSteps(t) ==
    \/ \E p \in ProjNames, n \in FileArgs : FilesDelete(t, p, n)
    \/ \E p \in ProjNames, n \in FileArgs, d \in RenameDsts :
          FilesRename(t, p, n, d)
    \/ FilesReadHistory(t)
    \/ FilesOpenHistory(t)
    \/ FilesWriteHistory(t)

ProjectStepsOver(t, ids, news) ==
    \/ \E name \in ids, force \in BOOLEAN : ProjectsDelete(t, name, force)
    \/ \E old \in ids, new \in news : ProjectsRename(t, old, new)

ProjectSteps(t) == ProjectStepsOver(t, NarrowIds, NarrowIds)

Next ==
    \/ \E t \in Threads, e \in Endpoints : GenStart(t, e, NarrowInputs(e))
    \/ \E t \in Threads : GenSteps(t)
    \/ \E t \in Threads : FileSteps(t)
    \/ \E t \in Threads : ProjectSteps(t)
    \/ Tick

Spec == Init /\ [][Next]_vars

(***************************************************************************)
(* Runs only: generate requests on every thread, no file or project        *)
(* management.                                                             *)
(***************************************************************************)
NextRuns ==
    \/ \E t \in Threads, e \in Endpoints : GenStart(t, e, NarrowInputs(e))
    \/ \E t \in Threads : GenSteps(t)
    \/ Tick

SpecRuns == Init /\ [][NextRuns]_vars

(***************************************************************************)
(* One request after the other: every handler, served by thread 1 alone,   *)
(* in a fresh installation or after one plain run into the Default project.*)
(***************************************************************************)
NextSeq ==
    \/ \E e \in Endpoints : GenStart(1, e, NarrowInputs(e))
    \/ GenSteps(1)
    \/ FileSteps(1)
    \/ ProjectSteps(1)
    \/ Tick

(***************************************************************************)
(* One request with every input of WideInputs, served by thread 1, in a    *)
(* fresh installation or after one plain run into the Default project.     *)
(***************************************************************************)
SeedInput ==
    [project |-> "Default", mode |-> "simple", ref_mode |-> "prompt",
     ref_prompt |-> "piano", ref_audio_existing |-> "", ref_audio |-> "none",
     lrc |-> "none", use_chunked |-> ABSENT,
     nums |-> [k \in NumParams |-> ABSENT]]

SeedEntry ==
    HistoryEntry("generate",
                 ParseForm(SeedInput, {DEFAULT_PROJECT_NAME},
                           [p \in ProjNames |-> NoDir], 0).a,
                 [NoRun EXCEPT !.rc = 0, !.moved = TRUE,
                               !.final_name = OutName(1)],
                 1)

SeedDir == PutFile(PutFile(NoDir, OutName(1), Wav),
                   HISTORY_NAME, Json(<<SeedEntry>>))

InitReq ==
    /\ config = [base_dir |-> DEFAULT_BASE, active_project |-> "Default"]
    /\ offbase = NoTree
    /\ lock = 0
    /\ pc = [t \in Threads |-> "idle"]
    /\ op = [t \in Threads |-> "none"]
    /\ args = [t \in Threads |-> NoArgs]
    /\ run = [t \in Threads |-> NoRun]
    /\ h = [t \in Threads |-> <<>>]
    /\ fop = [t \in Threads |-> NoFop]
    /\ resp = [t \in Threads |-> NoResp]
    /\ dirs = {DEFAULT_PROJECT_NAME}
    /\ \E seeded \in BOOLEAN :
          /\ fs = [p \in ProjNames |->
                     IF seeded /\ p = DEFAULT_PROJECT_NAME THEN SeedDir
                     ELSE NoDir]
          /\ log = [p \in ProjNames |->
                      IF seeded /\ p = DEFAULT_PROJECT_NAME THEN <<SeedEntry>>
                      ELSE <<>>]
    /\ uploads = {}
    /\ tmp = [k \in {} |-> {}]
    /\ running = {}
    /\ clock = 1
    /\ nops = 0
    /\ faults = 0
    /\ ghost = [t \in Threads |-> NoGhost]
    /\ touched = [p \in ProjNames |-> {}]

NextReq ==
    \/ nops = 0 /\ \E e \in Endpoints : GenStart(1, e, WideInputs(e))
    \/ GenSteps(1)
    \/ Tick

SpecReq == InitReq /\ [][NextReq]_vars

SpecSeq == InitReq /\ [][NextSeq]_vars

(***************************************************************************)
(* Project management with every identifier of WideIds (new names of a     *)
(* rename: of ShortIds), one request after the other, in a fresh           *)
(* installation or after one plain run into the Default project.           *)
(***************************************************************************)
NextProjects ==
    \/ ProjectStepsOver(1, WideIds, ShortIds)
    \/ Finish(1)

SpecProjects == InitReq /\ [][NextProjects]_vars

(***************************************************************************)
(* Runs under a fair scheduler: a handler that can take a step of its own  *)
(* takes it.  The exit of the external process is not the handler's step   *)
(* and is left unfair: subprocess.run has no timeout.                      *)
(***************************************************************************)
HandlerStep(t) ==
    \/ GenSpawn(t)
    \/ GenRelocate(t)
    \/ GenReadHistory(t)
    \/ GenOpenHistory(t)
    \/ GenWriteHistory(t)
    \/ GenRelease(t)

SpecRunsFair == SpecRuns /\ \A t \in Threads : WF_vars(HandlerStep(t))

(***************************************************************************)
(* Runs while the configuration changes and collaborators list the        *)
(* project directories.                                                    *)
(***************************************************************************)
NextConfig ==
    \/ \E t \in Threads, e \in Endpoints : GenStart(t, e, NarrowInputs(e))
    \/ \E t \in Threads : GenSteps(t)
    \/ \E t \in Threads : GenCopyDone(t)
    \/ \E t \in Threads, p \in ProjNames : FilesList(t, p)
    \/ \E b \in Bases \cup {ABSENT}, ap \in ProjNames \cup {ABSENT} :
          ConfigPost(b, ap)
    \/ Tick

SpecConfig == Init /\ [][NextConfig]_vars

(***************************************************************************)
(* Properties.                                                             *)
(***************************************************************************)
\* t is between RUN_LOCK.acquire and RUN_LOCK.release.
InGate(t) ==
    /\ op[t] \in Endpoints
    /\ pc[t] \in {"spawn", "running", "relocate", "hread", "hopen", "hwrite",
                  "release"}

\* t has returned from a generate request.
Returned(t) == op[t] \in Endpoints /\ pc[t] = "done"

\* A request on p is between reading and rewriting p's ledger.
LedgerBusy(p) ==
    \E t \in Threads :
        \/ pc[t] \in {"hopen", "hwrite"} /\ args[t].pdir = p
        \/ pc[t] \in {"fread", "fopen", "fwrite"}
           /\ ProjectDir(fop[t].project) = p

\* items is an initial part of other.
IsPrefix(items, other) ==
    /\ Len(items) <= Len(other)
    /\ \A k \in 1..Len(items) : items[k] = other[k]

\* Some entry of items references the file name.
References(items, name) == \E k \in 1..Len(items) : items[k].file = name

\* t has returned success from the file request kind.
FileDone(t, kind) ==
    /\ op[t] = kind
    /\ pc[t] = "done"
    /\ resp[t].status = 200
    /\ fop[t].project \in dirs
    /\ ~LedgerBusy(fop[t].project)

\* C1: in every reachable state at most one generate request, over both
\* endpoints and all projects, is between acquiring and releasing RUN_LOCK,
\* and at most one external process is running.
C1_MutualExclusion ==
    /\ Cardinality({t \in Threads : InGate(t)}) <= 1
    /\ Cardinality(running) <= 1

\* One request runs its process while another has been answered 429.
C1_Witness ==
    \E t, u \in Threads :
        /\ t # u
        /\ pc[t] = "running" /\ t \in running
        /\ Returned(u) /\ resp[u].status = 429

\* C2: a generate request that arrives while the gate is held is answered
\* 429 in the same step, is never taken up again, and changes no project
\* directory, file, upload, scratch directory, running process or the lock.
C2_BusyRejection ==
    [][\A t \in Threads :
          /\ (pc[t] = "idle" /\ op'[t] \in Endpoints /\ lock # 0) =>
                /\ pc'[t] = "done"
                /\ resp'[t].status = 429
                /\ ghost'[t].spawns = 0
                /\ UNCHANGED <<dirs, fs, uploads, tmp, running, lock>>
          /\ (Returned(t) /\ resp[t].status = 429) =>
                pc'[t] \in {"done", "idle"}]_vars

\* A request has been answered 429 while another holds the gate.
C2_Witness ==
    \E t \in Threads :
        /\ Returned(t) /\ resp[t].status = 429
        /\ lock \notin {0, t}

\* C3: once a request that acquired the gate has returned, with whatever
\* outcome, it no longer holds the gate.
C3_GuaranteedRelease ==
    \A t \in Threads : pc[t] \in {"idle", "done"} => lock # t

\* A request that raised (500) has returned and the gate is free.
C3_Witness ==
    \E t \in Threads :
        /\ Returned(t) /\ resp[t].status = 500
        /\ lock = 0

\* C4: the run result has ok = true exactly when the process exited with
\* status 0 and an artifact was found in the scratch directory and placed
\* in the project directory; the response carries that ok.
C4_OkIffExitZeroAndMoved ==
    [][\A t \in Threads :
          /\ (pc[t] = "relocate" /\ pc'[t] # "relocate"
                /\ resp'[t].status # 500) =>
                LET found == tmp[run[t].token] \cap WavArtNames # {}
                    placed == /\ args[t].pdir \in dirs'
                              /\ run'[t].final_name
                                    \in DOMAIN fs'[args[t].pdir]
                    ok == pc'[t] = "hread"
                IN  /\ ok <=> (run[t].rc = 0 /\ found /\ placed)
                    /\ ~ok => (resp'[t].status = 200 /\ ~resp'[t].ok)
          /\ (op[t] \in Endpoints /\ resp'[t] # resp[t]
                /\ resp'[t].status = 200) =>
                (resp'[t].ok <=> (run'[t].rc = 0 /\ run'[t].moved))]_vars

\* The process exited 0 without an artifact and the result is ok = false.
C4_Witness ==
    \E t \in Threads :
        /\ op[t] \in Endpoints
        /\ pc[t] = "release"
        /\ resp[t].status = 200 /\ ~resp[t].ok
        /\ resp[t].returncode = 0

C6_NoSpawnOnInvalid ==
    \A t \in Threads :
        ghost[t].spawns > 0 =>
            /\ ~ghost[t].unset
            /\ ghost[t].bad \subseteq
                  (IF op[t] = "generate" /\ ghost[t].mode = "simple"
                   THEN {"batch_infer_num"} ELSE {})

\* A request with a non-numeric field was answered 400 and spawned nothing.
C6_Witness ==
    \E t \in Threads :
        /\ Returned(t) /\ resp[t].status = 400
        /\ ghost[t].bad # {}
        /\ ghost[t].spawns = 0

\* C6 as stated: no process is spawned for a request with neither prompt
\* nor reference audio, nor for one with a non-numeric audio_length, steps,
\* cfg_strength or batch_infer_num.
C6_Stated ==
    \A t \in Threads :
        ghost[t].spawns > 0 => (~ghost[t].unset /\ ghost[t].bad = {})

\* C7 as stated: a generate request that fails validation leaves the
\* project directories, uploads, scratch directories and files as they were.
C7_Stated ==
    [][\A t \in Threads :
          (pc[t] = "idle" /\ op'[t] \in Endpoints
             /\ resp'[t].status = 400) =>
                UNCHANGED <<dirs, fs, uploads, tmp>>]_vars

\* C8 as stated: the scratch directory of a request that has returned no
\* longer exists.
C8_Stated ==
    \A t \in Threads : Returned(t) => run[t].token \notin DOMAIN tmp

\* C9: with runs only, whenever no run is rewriting the ledger of p, reading
\* it returns exactly the entries the runs have appended to it, in append
\* order.
C9_LedgerRoundTrip ==
    \A p \in ProjNames :
        ~LedgerBusy(p) => ReadHistory(DirOf(dirs, fs, p)) = log[p]

\* Two different entries have been appended to one ledger and are read back.
C9_Witness ==
    \E p \in dirs :
        /\ \A t \in Threads : pc[t] \in {"idle", "done"}
        /\ Len(log[p]) = 2
        /\ log[p][1] # log[p][2]
        /\ ReadHistory(fs[p]) = log[p]

\* C10 as stated: while the project exists and no request is rewriting its
\* ledger, every entry written to it whose file has not been renamed or
\* deleted is still in the ledger, unchanged.
C10_Stated ==
    \A p \in dirs :
        ~LedgerBusy(p) =>
            \A k \in 1..Len(log[p]) :
                log[p][k].file \notin touched[p] =>
                    \E j \in 1..Len(ReadHistory(fs[p])) :
                        ReadHistory(fs[p])[j] = log[p][k]

\* C11 as stated: after a successful rename of src to dst, with one request
\* served after the other, the ledger is the ledger found by the request
\* with file src replaced by dst (followed by what later runs appended), and
\* no entry references src unless a later run made that file again.
C11_Stated ==
    \A t \in Threads :
        FileDone(t, "files_rename") =>
            LET cur == ReadHistory(fs[fop[t].project])
            IN  /\ IsPrefix(PatchFile(fop[t].before, fop[t].src, fop[t].dst),
                            cur)
                /\ (fop[t].src # fop[t].dst
                      /\ fop[t].src \notin DOMAIN fs[fop[t].project]) =>
                        ~References(cur, fop[t].src)

\* C12 as stated, for the delete of an artifact: after a successful delete
\* of a name, also when it overlapped a run on the project, no entry
\* references the name while the file stays deleted, and the ledger is the
\* ledger found by the request without the entries of that name (followed
\* by what runs appended).
C12_Stated ==
    \A t \in Threads :
        (FileDone(t, "files_delete") /\ fop[t].src # HISTORY_NAME) =>
            LET cur == ReadHistory(fs[fop[t].project])
            IN  /\ fop[t].src \notin DOMAIN fs[fop[t].project] =>
                        ~References(cur, fop[t].src)
                /\ IsPrefix(FilterOut(fop[t].before, fop[t].src), cur)

\* C13 as stated: at every instant a reader of a project's history file
\* finds complete content, never an empty or partially written file.
C13_Stated ==
    \A p \in dirs :
        HISTORY_NAME \in DOMAIN fs[p] =>
            fs[p][HISTORY_NAME].kind \notin {"empty", "mixed"}

\* t is inside a read-modify-write cycle on the ledger of p: it has read the
\* list and has not finished writing it.
InCycle(t, p) ==
    \/ pc[t] \in {"hopen", "hwrite"} /\ args[t].pdir = p
    \/ pc[t] \in {"fopen", "fwrite"} /\ fop[t].project = p

\* C14 as stated: at most one request at a time is inside a
\* read-modify-write cycle on the ledger of a project.
C14_Stated ==
    \A p \in ProjNames :
        Cardinality({t \in Threads : InCycle(t, p)}) <= 1

\* t has just been answered by the project request kind.
ProjectStep(t, kind) == pc[t] = "idle" /\ op'[t] = kind

\* C15 as stated: no project delete or rename request, whatever the name
\* strings, removes or moves the Default project directory or its contents.
C15_Stated ==
    [][\A t \in Threads :
          (ProjectStep(t, "projects_delete")
             \/ ProjectStep(t, "projects_rename")) =>
                /\ DEFAULT_PROJECT_NAME \in dirs => DEFAULT_PROJECT_NAME \in dirs'
                /\ fs'[DEFAULT_PROJECT_NAME] = fs[DEFAULT_PROJECT_NAME]]_vars

\* C16 as stated: the directory project_path resolves an identifier to, when
\* it does not raise, lies under the base directory and is not the base
\* directory itself.
C16_Stated ==
    \A t \in Threads :
        (pc[t] = "done" /\ op[t] \in {"projects_delete", "projects_rename"}) =>
            LET at == ProjectPath(fop[t].id)
            IN  at # Raised => (at.up = 0 /\ at.path # <<>>)

\* t is inside run_infer or behind it, with its validated locals.
HasRun(t) ==
    /\ op[t] \in Endpoints
    /\ pc[t] \in {"running", "relocate", "hread", "hopen", "hwrite", "release"}
    /\ run[t].cmd # <<>>

BeginsWithPreLog(l, cmd) ==
    /\ Len(l) >= 3
    /\ l[1] = <<"DR-GUI CMD", cmd>>
    /\ l[2][1] = "DR-GUI ENV"
    /\ l[3][1] = "DR-GUI PARAMS"

\* C18 (as stated): every accepted request that reached the Process Runner
\* is answered with a result whose log begins with the pre-log header and
\* that carries the exit code of the process, also when the process could
\* not be started, exited non-zero or left no artifact; and the process is
\* started at most once per request.
C18_Stated ==
    \A t \in Threads :
        /\ ghost[t].spawns <= 1
        /\ (Returned(t) /\ run[t].cmd # <<>>) =>
              /\ BeginsWithPreLog(resp[t].logs, run[t].cmd)
              /\ resp[t].returncode \in {0, 1}

\* C19 (as stated): when moving the artifact into the project directory
\* fails, the caller receives an unsuccessful result that carries the exit
\* code of the process and the captured log, no history entry is appended
\* and the gate is released.
C19_Stated ==
    \A t \in Threads :
        (Returned(t) /\ run[t].move_failed) =>
            /\ ~resp[t].ok
            /\ resp[t].returncode = run[t].rc
            /\ resp[t].logs = run[t].logs
            /\ ghost[t].appends = 0
            /\ lock # t

\* ---------------------------------------------------------------------------
\* The outcomes of a generate request
\* ---------------------------------------------------------------------------

\* What happened to the returned request of thread t: it found the gate
\* held; it was rejected before run_infer for an unset reference or a
\* non-numeric parameter; the process exited and the run is unsuccessful;
\* the run is successful and recorded; or an exception ended it.
Outcome(t) ==
    IF run[t].token = 0 THEN "busy"
    ELSE IF run[t].cmd = <<>> /\ (ghost[t].unset \/ ghost[t].bad # {})
         THEN "validation"
    ELSE IF run[t].rc # -1 /\ ~run[t].move_failed /\ ~RunResultOk(run[t])
         THEN "process"
    ELSE IF RunResultOk(run[t]) /\ ghost[t].appends = 1 THEN "success"
    ELSE "fault"

FourOutcomes == {"success", "busy", "validation", "process"}

\* What a caller sees of a response: the HTTP status and the ok field.
Signal(r) == <<r.status, r.ok>>

Listed(t) == op[t] = "files_list" /\ pc[t] = "done"

\* C21 (as stated): a listing of a project directory taken while a run is
\* under way shows the new artifact either not at all or complete under its
\* final name, never partially copied, whatever base directory is
\* configured.
C21_Stated ==
    \A t \in Threads :
        Listed(t) => \A f \in resp[t].files : f[2] # "partial"

\* ---------------------------------------------------------------------------
\* Liveness of the gate
\* ---------------------------------------------------------------------------

\* C22: once the external process of an accepted job has exited, the job
\* returns a response and no longer holds the gate, and a generate attempt
\* that finds the gate free acquires it; while the process has not exited
\* the job holds the gate and stays in subprocess.run (nothing but the exit
\* of the process ends it), and every generate attempt is answered 429.
C22_GateLiveness ==
    /\ \A t \in Threads :
          (pc[t] = "relocate") ~> (pc[t] = "done" /\ lock # t)
    /\ [](\A t \in running : lock = t /\ pc[t] = "running")
    /\ [][\A t \in Threads :
            /\ (t \in running /\ t \notin running') =>
                  (pc'[t] = "relocate" /\ run'[t].rc \in {0, 1})
            /\ (pc[t] = "idle" /\ op'[t] \in Endpoints) =>
                  IF lock = 0 THEN lock' = t /\ resp'[t].status # 429
                  ELSE /\ resp'[t].status = 429
                       /\ pc'[t] = "done"
                       /\ UNCHANGED <<lock, running>>]_vars

\* A job whose process exited has returned, and a later attempt of the
\* other thread holds the gate.
C22_Witness ==
    \E t, u \in Threads :
        /\ Returned(t) /\ run[t].rc # -1
        /\ u # t /\ lock = u

\* Thread t takes the relocation step of run_infer and nothing fails in it.
Relocates(t) ==
    /\ pc[t] = "relocate"
    /\ pc'[t] # "relocate"
    /\ faults' = faults

\* C23 (as stated): when the scratch directory holds output.wav, that file
\* is the one moved, and otherwise a *.wav of the scratch directory is; it
\* is placed in the project directory as output-<timestamp>.wav; exactly
\* one file is added to the project directory by the run, and the scratch
\* directory with every other file is gone.
C23_Stated ==
    [][\A t \in Threads :
          (Relocates(t) /\ tmp[run[t].token] \cap WavArtNames # {}) =>
              LET scratch == tmp[run[t].token]
                  key == run'[t].dkey
                  name == run'[t].final_name
              IN  /\ run'[t].src \in scratch \cap WavArtNames
                  /\ "output.wav" \in scratch => run'[t].src = "output.wav"
                  /\ name = OutName(clock)
                  /\ name \in DOMAIN fs'[key]
                  /\ DOMAIN fs'[key] \ DOMAIN fs[key] = {name}
                  /\ \A n \in DOMAIN fs[key] \ {name} :
                        n \in DOMAIN fs'[key] /\ fs'[key][n] = fs[key][n]
                  /\ run[t].token \notin DOMAIN tmp']_vars

\* C24 (as stated): when a run has appended its history entry, the
\* directory into which run_infer placed the artifact is the project
\* directory whose ledger received the entry, whatever configuration
\* updates and project requests were served during the run.
C24_Stated ==
    \A t \in Threads :
        (pc[t] = "release" /\ ghost[t].appends = 1) =>
            /\ run[t].dbase = args[t].base
            /\ run[t].dkey = args[t].pdir

\* ---------------------------------------------------------------------------
\* The artifact fields of a run result
\* ---------------------------------------------------------------------------

\* The response of thread t is the result of run_infer.
HasResult(t) == Returned(t) /\ resp[t].status = 200 /\ run[t].rc # -1

\* C25 (as stated): a run result with ok = false has an empty outfile_name
\* and its run has placed no file in the project directory.
C25_Stated ==
    \A t \in Threads :
        (HasResult(t) /\ ~resp[t].ok) =>
            /\ resp[t].outfile_name = ""
            /\ ~run[t].moved

\* C25 (amended): the outfile_name of a run result is empty exactly when
\* the run found no artifact to move, and then ok is false and the
\* relocation step has left every project directory as it was; a result
\* with a moved artifact names it, also when ok is false because the
\* process exited non-zero.
C25_EmptyIffNoArtifact ==
    /\ [](\A t \in Threads :
            HasResult(t) =>
                /\ (resp[t].outfile_name = "") <=> ~run[t].moved
                /\ ~run[t].moved => ~resp[t].ok
                /\ run[t].moved => resp[t].outfile_name = run[t].final_name)
    /\ [][\A t \in Threads :
            (pc[t] = "relocate" /\ pc'[t] # "relocate" /\ ~run'[t].moved) =>
                fs' = fs]_vars

\* A run that found no artifact has returned its result.
C25_Witness ==
    \E t \in Threads :
        /\ HasResult(t)
        /\ ~run[t].moved
        /\ resp[t].outfile_name = ""
        /\ ~resp[t].ok

\* C26 (as stated): the destination name run_infer chooses never names a
\* file that is already in the project directory, so a relocation replaces
\* no artifact, also when two runs complete within one clock second.
C26_Stated ==
    [][\A t \in Threads :
          (pc[t] = "relocate" /\ run'[t].moved) =>
              run'[t].final_name \notin DOMAIN fs[run'[t].dkey]]_vars

\* ---------------------------------------------------------------------------
\* The reference recorded in a history entry
\* ---------------------------------------------------------------------------

\* The argument vector cmd carries the option flag.
CmdHas(cmd, flag) == \E k \in 1..Len(cmd) : cmd[k] = flag

\* The value that follows the option flag in cmd.
CmdArg(cmd, flag) == cmd[(CHOOSE k \in 1..Len(cmd) : cmd[k] = flag) + 1]

\* C27 (as stated): the entry a run appends has a non-null prompt, equal to
\* the --ref-prompt text, iff the run was given a text prompt, a non-null
\* ref_audio iff the run was given --ref-audio-path, and so exactly one of
\* the two non-null, on both endpoints and for every ref_mode.
C27_Stated ==
    \A t \in Threads :
        (pc[t] = "release" /\ ghost[t].appends = 1) =>
            LET e == h[t][Len(h[t])]
                cmd == run[t].cmd
            IN  /\ (e.prompt # Null) <=> CmdHas(cmd, "--ref-prompt")
                /\ CmdHas(cmd, "--ref-prompt") =>
                      e.prompt = CmdArg(cmd, "--ref-prompt")
                /\ (e.ref_audio # Null) <=> CmdHas(cmd, "--ref-audio-path")
                /\ (e.prompt = Null) # (e.ref_audio = Null)

\* ---------------------------------------------------------------------------
\* Who releases the gate
\* ---------------------------------------------------------------------------

\* C28: the gate changes from held to free only in the release step of the
\* request that holds it, and no process is running at that moment; a
\* request rejected as busy leaves the gate as it found it and never calls
\* release; no request calls release more than once.
C28_ReleaseByHolderOnly ==
    /\ [](\A t \in Threads :
            /\ ghost[t].releases <= 1
            /\ (Returned(t) /\ resp[t].status = 429) =>
                  ghost[t].releases = 0)
    /\ [][\A t \in Threads :
            /\ (lock = t /\ lock' # t) =>
                  /\ pc[t] = "release" /\ pc'[t] = "done"
                  /\ ghost'[t].releases = ghost[t].releases + 1
                  /\ lock' = 0
                  /\ running = {}
            /\ ghost'[t].releases # ghost[t].releases =>
                  (lock = t \/ ghost'[t].releases = 0)
            /\ (pc[t] = "idle" /\ op'[t] \in Endpoints /\ lock # 0) =>
                  lock' = lock]_vars

\* A request has been rejected as busy while the process of the request
\* that holds the gate is running.
C28_Witness ==
    \E t, u \in Threads :
        /\ Returned(t) /\ resp[t].status = 429
        /\ u \in running /\ lock = u

====
